---- MODULE Spec2Model ----
(***************************************************************************)
(* py-coingecko: the request pipeline of the CoinGecko client              *)
(* (coingecko/coingecko.py) and the parameter normaliser                   *)
(* (coingecko/utils.py).                                                   *)
(*                                                                         *)
(* Python values are tagged records [t |-> type, v |-> payload] so that    *)
(* isinstance() tests, "is None" tests and == between values of different  *)
(* types are all expressible.  A dict is a function whose DOMAIN is its    *)
(* key set (dict equality in Python ignores insertion order).              *)
(*                                                                         *)
(* Record constructors list their fields in the order TLC keeps them in,   *)
(* so that no worker ever has to reorder a record another worker reads.    *)
(***************************************************************************)
EXTENDS Integers, Sequences, FiniteSets, TLC

VARIABLES
    self,        \* the client: [key, fail_silently]
    pc,          \* position of the caller: "idle", "requesting" (inside
                 \* requests.get), "done" (_get has exited), "cleaned" and
                 \* "recleaned" (after direct calls of clean_params)
    path,        \* path argument of the current _get call
    params,      \* raw params argument of the current _get call
    requests,    \* calls of requests.get made by the current _get call
    response,    \* what the transport gave back to the current call
    events,      \* what the call did after the GET, in order: logger
                 \* events, then its exit (return or raise)
    rendered,    \* result of str(e) on the exception the call raised
    cp_in,       \* argument of the latest direct clean_params call
    cp_out,      \* its result
    method,      \* name of the public method the caller invoked
    args,        \* the arguments the caller gave it, by parameter name
    heap,        \* the dict objects alive during a direct clean_params
                 \* call: heap[i] is the content of object i
    cp_arg,      \* the object the caller passed to clean_params (0: None)
    cp_ret,      \* the object clean_params returned (0: it returned None)
    earlier      \* TRUE once a call on this client has finished

vars == <<self, pc, path, params, requests, response, events, rendered,
          cp_in, cp_out, method, args, heap, cp_arg, cp_ret, earlier>>

---------------------------------------------------------------------------
(* Bounds of the model *)

MaxParams == 2      \* number of distinct parameter names a mapping may use
MaxListLen == 2     \* longest list value of a parameter

---------------------------------------------------------------------------
(* Python values *)

None == [t |-> "NoneType", v |-> "None"]
VBool(b) == [t |-> "bool", v |-> b]
VInt(i) == [t |-> "int", v |-> i]
VStr(s) == [t |-> "str", v |-> s]
VList(l) == [t |-> "list", v |-> l]
VDict(d) == [t |-> "dict", v |-> d]

EmptyMap == [k \in {} |-> None]

\* isinstance(value, bool) / isinstance(value, list) / value is None
IsBool(value) == value.t = "bool"
IsList(value) == value.t = "list"
IsNone(value) == value.t = "NoneType"

\* Python truthiness of an Optional[Dict]: None and {} are falsy
Truthy(value) ==
    CASE value.t = "NoneType" -> FALSE
      [] value.t = "dict" -> DOMAIN value.v # {}
      [] OTHER -> TRUE

Digit(d) ==
    CASE d = 0 -> "0" [] d = 1 -> "1" [] d = 2 -> "2" [] d = 3 -> "3"
      [] d = 4 -> "4" [] d = 5 -> "5" [] d = 6 -> "6" [] d = 7 -> "7"
      [] d = 8 -> "8" [] d = 9 -> "9"

RECURSIVE NatStr(_)
NatStr(n) == IF n < 10 THEN Digit(n) ELSE NatStr(n \div 10) \o Digit(n % 10)

\* str() of a Python value, as used by str(i), str(value) and f-strings
PyStr(value) ==
    CASE value.t = "str" -> value.v
      [] value.t = "int" ->
            IF value.v < 0 THEN "-" \o NatStr(-value.v) ELSE NatStr(value.v)
      [] value.t = "bool" -> IF value.v THEN "True" ELSE "False"
      [] value.t = "NoneType" -> "None"

\* str.lower() on the strings the model produces
Lower(s) ==
    CASE s = "True" -> "true"
      [] s = "False" -> "false"
      [] s = "None" -> "none"
      [] OTHER -> s

\* sep.join(strs) for a sequence of strings
RECURSIVE Join(_, _)
Join(sep, strs) ==
    IF Len(strs) = 0 THEN ""
    ELSE IF Len(strs) = 1 THEN strs[1]
    ELSE strs[1] \o sep \o Join(sep, Tail(strs))

---------------------------------------------------------------------------
(* coingecko/utils.py *)

\* Python truthiness of a parameter value
TruthyValue(value) ==
    CASE value.t = "NoneType" -> FALSE
      [] value.t = "bool" -> value.v
      [] value.t = "int" -> value.v # 0
      [] value.t = "str" -> value.v # ""
      [] value.t = "list" -> Len(value.v) # 0

\* mutant: {k: v for k, v in dic.items() if v}
remove_empty_dict_values_if_v(dic) ==
    [k \in {j \in DOMAIN dic : TruthyValue(dic[j])} |-> dic[k]]

\* {k: v for k, v in dic.items() if v is not None}; dic is a bare mapping
remove_empty_dict_values(dic) ==
    [k \in {j \in DOMAIN dic : ~IsNone(dic[j])} |-> dic[k]]

\* mutant: str(value) without .lower()
clean_value_no_lower(value) ==
    IF IsBool(value) THEN VStr(PyStr(value))
    ELSE IF IsList(value)
         THEN VStr(Join(",", [i \in DOMAIN value.v |-> PyStr(value.v[i])]))
    ELSE value

\* the value clean_dict_values stores under one key
clean_value(value) ==
    IF IsBool(value) THEN VStr(Lower(PyStr(value)))
    ELSE IF IsList(value)
         THEN VStr(Join(",", [i \in DOMAIN value.v |-> PyStr(value.v[i])]))
    ELSE value

clean_dict_values(dic) == [k \in DOMAIN dic |-> clean_value(dic[k])]

\* params is an Optional[Dict]: None or VDict(d)
clean_params(p) ==
    IF ~Truthy(p) THEN None
    ELSE VDict(clean_dict_values(remove_empty_dict_values(p.v)))

\* The same three functions on dict objects.  h is the heap, h[ref] the
\* content of object ref; each yields <<heap afterwards, object returned>>.

\* mutant: the None entries are deleted from dic itself
remove_empty_dict_values_in_place(h, ref) ==
    <<[h EXCEPT ![ref] = remove_empty_dict_values(h[ref])], ref>>

\* the dict comprehension builds a new object
remove_empty_dict_values_obj(h, ref) ==
    <<Append(h, remove_empty_dict_values(h[ref])), Len(h) + 1>>

\* dic[key] = ... assigns into the object it was given; return dic
clean_dict_values_obj(h, ref) ==
    <<[h EXCEPT ![ref] = clean_dict_values(h[ref])], ref>>

\* ref = 0 stands for the argument None
clean_params_obj(h, ref) ==
    IF ref = 0 \/ DOMAIN h[ref] = {} THEN <<h, 0>>
    ELSE LET kept == remove_empty_dict_values_obj(h, ref)
         IN  clean_dict_values_obj(kept[1], kept[2])

---------------------------------------------------------------------------
(* The transport collaborator: what requests.get can hand back *)

\* outcome of an operation that may raise
Ok(value) == [v |-> value, ok |-> TRUE]
Raises(cls) == [v |-> cls, ok |-> FALSE]

\* Response bodies.  decode is the result of r.content.decode() (strict
\* UTF-8), json is the result of r.json().
Bodies == <<
    \* b'{}'
    [content |-> "{}",
     decode |-> Ok("{}"),
     json |-> Ok(VDict(EmptyMap))],
    \* b'{"error":"Not Found"}'
    [content |-> "{\"error\":\"Not Found\"}",
     decode |-> Ok("{\"error\":\"Not Found\"}"),
     json |-> Ok(VDict([k \in {"error"} |-> VStr("Not Found")]))],
    \* b'Not Found Message Content'
    [content |-> "Not Found Message Content",
     decode |-> Ok("Not Found Message Content"),
     json |-> Raises("JSONDecodeError")],
    \* b'["bitcoin"]'
    [content |-> "[\"bitcoin\"]",
     decode |-> Ok("[\"bitcoin\"]"),
     json |-> Ok(VList(<<VStr("bitcoin")>>))],
    \* b'Acc\xe8s refus\xe9' (an ISO-8859-1 error page)
    [content |-> "Acc<e8>s refus<e9>",
     decode |-> Raises("UnicodeDecodeError"),
     json |-> Raises("JSONDecodeError")],
    \* '{"error":"Not Found"}' encoded as UTF-16 with a byte order mark
    [content |-> "<ff><fe>{\"error\":\"Not Found\"}",
     decode |-> Raises("UnicodeDecodeError"),
     json |-> Ok(VDict([k \in {"error"} |-> VStr("Not Found")]))]
>>

StatusCodes == {200, 204, 404, 500}

Response(code, b) ==
    [content |-> Bodies[b].content, decode |-> Bodies[b].decode,
     json |-> Bodies[b].json, status_code |-> code]

NoResponse == [content |-> "", decode |-> Raises("none"),
               json |-> Raises("none"), status_code |-> 0]

---------------------------------------------------------------------------
(* coingecko/coingecko.py *)

BASE_URL == "https://api.coingecko.com/api/v3/"

\* steps a call takes after the GET
LogEvent(level, msg) == [ev |-> level, arg |-> msg]
Return(value) == [ev |-> "return", arg |-> value]
Raise(exc) == [ev |-> "raise", arg |-> exc]

Exception(cls) == [response |-> NoResponse, cls |-> cls]

\* CoinGeckoAPIError(response=r)
CoinGeckoAPIError(r) == [response |-> r, cls |-> "CoinGeckoAPIError"]

\* mutant: the detail is always the decoded body text
__str__text_only(e) ==
    LET r == e.response
    IN  IF r.decode.ok
        THEN Ok(NatStr(r.status_code) \o " " \o r.decode.v)
        ELSE Raises("UnicodeDecodeError")

\* CoinGeckoAPIError.__str__
__str__(e) ==
    LET r == e.response
        js == r.json
        status == NatStr(r.status_code)
    IN  IF js.ok
        THEN \* self.response.json()["error"]
             IF js.v.t = "dict"
             THEN IF "error" \in DOMAIN js.v.v
                  THEN Ok(status \o " " \o PyStr(js.v.v["error"]))
                  ELSE Raises("KeyError")
             ELSE Raises("TypeError")
        ELSE \* except json.JSONDecodeError
             IF r.decode.ok
             THEN Ok(status \o " " \o r.decode.v)
             ELSE Raises("UnicodeDecodeError")

\* mutant: the configured key is sent as a header
_get_headers_with_key(slf) ==
    IF IsNone(slf.key) THEN [k \in {"accept"} |-> "application/json"]
    ELSE [k \in {"accept", "x-cg-pro-api-key"} |->
             IF k = "accept" THEN "application/json" ELSE slf.key.v]

_get_headers(slf) == [k \in {"accept"} |-> "application/json"]

_fail(r) == Raise(CoinGeckoAPIError(r))

\* f"CoinGecko API error {r.status_code} on {path}: {details}"
Message(prefix, r, pth, details) ==
    [path |-> pth, status_code |-> r.status_code, prefix |-> prefix,
     details |-> details]

\* _get, lines 72-88: the response is not a 200
_get_not_200(slf, pth, r) ==
    IF ~r.decode.ok THEN <<Raise(Exception(r.decode.v))>>
    ELSE LET details == IF r.json.ok THEN r.json.v ELSE VStr(r.decode.v)
         IN  IF ~slf.fail_silently
             THEN <<LogEvent("warning",
                             Message("CoinGecko API error", r, pth, details)),
                    _fail(r)>>
             ELSE <<LogEvent("info",
                             Message("CoinGecko API silent error", r, pth,
                                     details)),
                    Return(None)>>

\* mutant: a 200 returns the body text instead of the parsed JSON
_get_response_text(slf, pth, r) ==
    IF r.status_code = 200
    THEN IF r.decode.ok THEN <<Return(VStr(r.decode.v))>>
         ELSE <<Raise(Exception(r.decode.v))>>
    ELSE _get_not_200(slf, pth, r)

\* mutant: a 200 whose body does not parse is handled like an API error
_get_response_guarded(slf, pth, r) ==
    IF r.status_code = 200 /\ r.json.ok THEN <<Return(r.json.v)>>
    ELSE _get_not_200(slf, pth, r)

\* _get from the return of requests.get on: the steps it takes, in order
_get_response(slf, pth, r) ==
    IF r.status_code = 200
    THEN IF r.json.ok THEN <<Return(r.json.v)>>
         ELSE <<Raise(Exception(r.json.v))>>
    ELSE _get_not_200(slf, pth, r)

---------------------------------------------------------------------------
(* Inputs *)

ParamNames == <<"ids", "include_market_cap", "vs_currencies", "page">>
Keys == {ParamNames[i] : i \in 1..MaxParams}

Elems == {VStr("bitcoin"), VInt(10)}
Lists == UNION {[1..n -> Elems] : n \in 0..MaxListLen}
Values == {None, VBool(TRUE), VBool(FALSE), VInt(1), VStr("usd")}
              \cup {VList(l) : l \in Lists}

Mappings == UNION {[S -> Values] : S \in SUBSET Keys}
ParamInputs == {None} \cup {VDict(d) : d \in Mappings}

Paths == {"ping", "test"}
ApiKeys == {None, VStr("CG-key")}

NotRendered == Raises("not rendered")

NoArgs == [k \in {} |-> None]

\* a dict display {k1: v1, k2: v2, ...} given as <<k1, v1>>, <<k2, v2>>, ...
MkDict(items) ==
    [k \in {items[i][1] : i \in DOMAIN items} |->
        items[CHOOSE i \in DOMAIN items : items[i][1] = k][2]]

\* arguments the callers of the endpoint methods supply
CoinIds == {VStr("bitcoin"), VStr("ethereum")}
ExchangeIds == {VStr("binance"), VStr("kraken")}
Addresses == {VStr("0xdac1"), VStr("0x6b17")}
IdLists == {VList(<<VStr("bitcoin"), VStr("ethereum")>>),
            VList(<<VStr("bitcoin")>>)}
CurrencyLists == {VList(<<VStr("usd")>>)}
OptBool == {None, VBool(TRUE), VBool(FALSE)}
OptTrue == {None, VBool(TRUE)}

---------------------------------------------------------------------------
(* The state machine *)

\* CoinGecko(key, fail_silently)
Init ==
    /\ self \in [key : ApiKeys, fail_silently : BOOLEAN]
    /\ pc = "idle"
    /\ path = ""
    /\ params = None
    /\ requests = <<>>
    /\ response = NoResponse
    /\ events = <<>>
    /\ rendered = NotRendered
    /\ cp_in = None
    /\ cp_out = None
    /\ method = ""
    /\ args = NoArgs
    /\ heap = <<>>
    /\ cp_arg = 0
    /\ cp_ret = 0
    /\ earlier = FALSE

\* self._get(path, params) up to the blocking call of requests.get
_get(pth, prm) ==
    /\ pc = "idle"
    /\ pc' = "requesting"
    /\ path' = pth
    /\ params' = prm
    /\ requests' = Append(requests,
                          [params |-> clean_params(prm),
                           url |-> BASE_URL \o pth,
                           headers |-> _get_headers(self)])
    /\ UNCHANGED <<self, earlier, response, events, rendered, cp_in, cp_out, heap,
                   cp_arg, cp_ret>>

\* a direct call self._get(path, params)
call_get(pth, prm) ==
    /\ _get(pth, prm)
    /\ method' = "_get"
    /\ args' = NoArgs

\* an endpoint method: return self._get(pth, prm)
Endpoint(name, a, pth, prm) ==
    /\ _get(pth, prm)
    /\ method' = name
    /\ args' = a

ping == Endpoint("ping", NoArgs, "ping", None)

get_simple_price(ids, vs_currencies, include_market_cap, include_24hr_vol, include_24hr_change, include_last_updated_at) ==
    LET items == <<
            <<"ids", ids>>,
            <<"vs_currencies", vs_currencies>>,
            <<"include_market_cap", include_market_cap>>,
            <<"include_24hr_vol", include_24hr_vol>>,
            <<"include_24hr_change", include_24hr_change>>,
            <<"include_last_updated_at", include_last_updated_at>> >>
    IN  Endpoint("get_simple_price", MkDict(items),
                 "simple/price", VDict(MkDict(items)))

get_simple_token_price(id, contract_addresses, vs_currencies, include_market_cap, include_24hr_vol, include_24hr_change, include_last_updated_at) ==
    LET items == <<
            <<"contract_addresses", contract_addresses>>,
            <<"vs_currencies", vs_currencies>>,
            <<"include_market_cap", include_market_cap>>,
            <<"include_24hr_vol", include_24hr_vol>>,
            <<"include_24hr_change", include_24hr_change>>,
            <<"include_last_updated_at", include_last_updated_at>> >>
    IN  Endpoint("get_simple_token_price",
                 MkDict(<<<<"id", id>>>> \o items),
                 "simple/token_price/{id}", VDict(MkDict(items)))

get_coins_list(include_platform) ==
    Endpoint("get_coins_list",
             MkDict(<< <<"include_platform", include_platform>> >>),
             "coins/list",
             VDict(MkDict(<< <<"include_platform",
                               VStr(Lower(PyStr(include_platform)))>> >>)))

get_coin_by_id(id, localization, tickers, market_data, community_data, developer_data, sparkline) ==
    LET items == <<
            <<"localization", localization>>,
            <<"tickers", tickers>>,
            <<"market_data", market_data>>,
            <<"community_data", community_data>>,
            <<"developer_data", developer_data>>,
            <<"sparkline", sparkline>> >>
    IN  Endpoint("get_coin_by_id", MkDict(<<<<"id", id>>>> \o items),
                 "coins/" \o PyStr(id), VDict(MkDict(items)))

get_coin_contract(id, contract_address) ==
    Endpoint("get_coin_contract",
             MkDict(<< <<"id", id>>, <<"contract_address", contract_address>> >>),
             "coins/" \o PyStr(id) \o "/contract/" \o PyStr(contract_address),
             None)

get_exchange(id) ==
    Endpoint("get_exchange", MkDict(<< <<"id", id>> >>),
             "exchanges/{id}", None)

get_indexes_by_market_id(market_id, id) ==
    Endpoint("get_indexes_by_market_id",
             MkDict(<< <<"market_id", market_id>>, <<"id", id>> >>),
             "indexes/{market_id}/{id}", None)

get_companies(coin_id) ==
    Endpoint("get_companies", MkDict(<< <<"coin_id", coin_id>> >>),
             "companies/public_treasury/{coin_id}", None)

\* mutant: after an API error the client switches itself to silent mode
requests_get_returns_sticky(r) ==
    /\ pc = "requesting"
    /\ pc' = "done"
    /\ response' = r
    /\ events' = _get_response(self, path, r)
    /\ self' = IF r.status_code = 200 THEN self
               ELSE [self EXCEPT !.fail_silently = TRUE]
    /\ UNCHANGED <<earlier, path, params, requests, rendered, cp_in, cp_out,
                   method, args, heap, cp_arg, cp_ret>>

\* requests.get returns r and _get runs to its exit
requests_get_returns(r) ==
    /\ pc = "requesting"
    /\ pc' = "done"
    /\ response' = r
    /\ events' = _get_response(self, path, r)
    /\ UNCHANGED <<self, earlier, path, params, requests, rendered, cp_in, cp_out,
                   method, args, heap, cp_arg, cp_ret>>

\* requests.get raises (network failure): nothing in _get catches it
requests_get_raises ==
    /\ pc = "requesting"
    /\ pc' = "done"
    /\ events' = <<Raise(Exception("ConnectionError"))>>
    /\ UNCHANGED <<self, earlier, path, params, requests, response, rendered,
                   cp_in, cp_out, method, args, heap, cp_arg, cp_ret>>

Exit == events[Len(events)]

\* the caller renders the CoinGeckoAPIError it caught: str(e)
str_exception ==
    /\ pc = "done"
    /\ Exit.ev = "raise"
    /\ Exit.arg.cls = "CoinGeckoAPIError"
    /\ rendered = NotRendered
    /\ rendered' = __str__(Exit.arg)
    /\ UNCHANGED <<self, earlier, pc, path, params, requests, response, events,
                   cp_in, cp_out, method, args, heap, cp_arg, cp_ret>>

\* a direct call clean_params(p)
call_clean_params(p) ==
    /\ pc = "idle"
    /\ pc' = "cleaned"
    /\ cp_in' = p
    /\ cp_out' = clean_params(p)
    /\ method' = "clean_params"
    /\ LET h == IF IsNone(p) THEN <<>> ELSE <<p.v>>
           res == clean_params_obj(h, Len(h))
       IN  /\ cp_arg' = Len(h)
           /\ heap' = res[1]
           /\ cp_ret' = res[2]
    /\ UNCHANGED <<self, earlier, path, params, requests, response, events, rendered,
                   args>>

\* the caller normalises the result once more: clean_params(clean_params(p))
call_clean_params_again ==
    /\ pc = "cleaned"
    /\ pc' = "recleaned"
    /\ cp_in' = cp_out
    /\ cp_out' = clean_params(cp_out)
    /\ LET res == clean_params_obj(heap, cp_ret)
       IN  /\ cp_arg' = cp_ret
           /\ heap' = res[1]
           /\ cp_ret' = res[2]
    /\ UNCHANGED <<self, earlier, path, params, requests, response, events, rendered,
                   method, args>>

\* the caller moves on to its next call; nothing of the finished call is kept
NextCall ==
    /\ pc \in {"done", "cleaned", "recleaned"}
    /\ pc' = "idle"
    /\ path' = ""
    /\ params' = None
    /\ requests' = <<>>
    /\ response' = NoResponse
    /\ events' = <<>>
    /\ rendered' = NotRendered
    /\ cp_in' = None
    /\ cp_out' = None
    /\ method' = ""
    /\ args' = NoArgs
    /\ heap' = <<>>
    /\ cp_arg' = 0
    /\ cp_ret' = 0
    /\ earlier' = TRUE
    /\ UNCHANGED self

\* the caller is between calls
Idle == pc = "idle"

Next ==
    \/ Idle /\ \E pth \in Paths, prm \in ParamInputs : call_get(pth, prm)
    \/ ping
    \/ Idle /\ \E ids \in IdLists, vs \in CurrencyLists,
                  mc, vol, chg, upd \in OptBool :
          get_simple_price(ids, vs, mc, vol, chg, upd)
    \/ Idle /\ \E id \in CoinIds, ca \in IdLists, vs \in CurrencyLists,
                  mc, vol \in OptBool, chg, upd \in OptTrue :
          get_simple_token_price(id, ca, vs, mc, vol, chg, upd)
    \/ \E ip \in OptBool : get_coins_list(ip)
    \/ Idle /\ \E id \in CoinIds, loc, tick \in OptBool,
                  md, cd, dd, sp \in OptTrue :
          get_coin_by_id(id, loc, tick, md, cd, dd, sp)
    \/ \E id \in CoinIds, ca \in Addresses : get_coin_contract(id, ca)
    \/ \E id \in ExchangeIds : get_exchange(id)
    \/ \E mid \in ExchangeIds, id \in CoinIds : get_indexes_by_market_id(mid, id)
    \/ \E cid \in CoinIds : get_companies(cid)
    \/ \E code \in StatusCodes, b \in DOMAIN Bodies :
          requests_get_returns(Response(code, b))
    \/ requests_get_raises
    \/ str_exception
    \/ Idle /\ \E p \in ParamInputs : call_clean_params(p)
    \/ call_clean_params_again
    \/ NextCall

Spec == Init /\ [][Next]_vars

---------------------------------------------------------------------------
(* Properties *)

Count(level) == Cardinality({i \in DOMAIN events : events[i].ev = level})

\* _get has exited after the transport handed it a response
Responded == pc = "done" /\ response # NoResponse

IsAPIError(step) == step.ev = "raise" /\ step.arg.cls = "CoinGeckoAPIError"
ReturnsNone(step) == step.ev = "return" /\ IsNone(step.arg)

\* C1: every _get call that receives a non-200 response with fail_silently
\* false emits exactly one warning and no info event, emits the warning
\* before raising, and ends by raising CoinGeckoAPIError.
C1_NonOkRaises ==
    (Responded /\ response.status_code # 200 /\ ~self.fail_silently) =>
        /\ Count("warning") = 1
        /\ Count("info") = 0
        /\ IsAPIError(Exit)
        /\ \E i \in DOMAIN events : events[i].ev = "warning" /\ i < Len(events)

\* C2: every _get call that receives a non-200 response with fail_silently
\* true returns None, raises nothing, emits exactly one info event and no
\* warning, whether or not the body parses as JSON.
C2_NonOkSilent ==
    (Responded /\ response.status_code # 200 /\ self.fail_silently) =>
        /\ Count("info") = 1
        /\ Count("warning") = 0
        /\ ReturnsNone(Exit)
        /\ \A i \in DOMAIN events : events[i].ev # "raise"

\* C3: a 200 response whose body parses as JSON makes _get return exactly
\* the parsed value, with no error and no log event, for either value of
\* fail_silently.
C3_OkReturnsJson ==
    (Responded /\ response.status_code = 200 /\ response.json.ok) =>
        /\ Len(events) = 1
        /\ Exit.ev = "return"
        /\ Exit.arg.t = response.json.v.t
        /\ Exit.arg.v = response.json.v.v

C3_Witness ==
    /\ Responded /\ response.status_code = 200 /\ self.fail_silently
    /\ response.json.ok /\ response.json.v.t = "list"
    /\ Exit.ev = "return" /\ Exit.arg.t = "list"

\* C4: for every status code other than 200, _get never returns response
\* data and takes the one error path: it raises when fail_silently is
\* false and returns None when it is true.
C4_Only200Succeeds ==
    (Responded /\ response.status_code # 200) =>
        /\ Exit.ev = "return" => IsNone(Exit.arg)
        /\ ~self.fail_silently => Exit.ev = "raise"
        /\ self.fail_silently => ReturnsNone(Exit)

C6_OneRequest ==
    /\ pc \in {"requesting", "done"} =>
          /\ Len(requests) = 1
          /\ requests[1].url = "https://api.coingecko.com/api/v3/" \o path
          /\ requests[1].params.t = clean_params(params).t
          /\ requests[1].params.v = clean_params(params).v
          /\ IsNone(params) => IsNone(requests[1].params)
          /\ DOMAIN requests[1].headers = {"accept"}
          /\ requests[1].headers["accept"] = "application/json"
    /\ pc \notin {"requesting", "done"} => requests = <<>>

C6_Witness ==
    /\ pc = "done" /\ ~IsNone(self.key) /\ Len(requests) = 1
    /\ Responded /\ response.status_code = 500 /\ IsAPIError(Exit)
    /\ path = "test" /\ requests[1].url = "https://api.coingecko.com/api/v3/test"
    /\ params.t = "dict" /\ requests[1].params.t = "dict"

\* a direct call clean_params(cp_in) has returned cp_out
Cleaned == pc \in {"cleaned", "recleaned"}

\* C7: when clean_params yields a mapping, it has no key whose input value
\* was None, keeps every key whose input value was not None, and holds no
\* value that is None, a bool or a list.
C7_CleanKeys ==
    (Cleaned /\ cp_out.t = "dict") =>
        /\ cp_in.t = "dict"
        /\ DOMAIN cp_out.v = {k \in DOMAIN cp_in.v : cp_in.v[k].t # "NoneType"}
        /\ \A k \in DOMAIN cp_out.v :
              cp_out.v[k].t \notin {"NoneType", "bool", "list"}

C7_Witness ==
    /\ pc = "cleaned" /\ cp_out.t = "dict"
    /\ \E k \in DOMAIN cp_in.v : IsNone(cp_in.v[k])
    /\ \E k \in DOMAIN cp_in.v : cp_in.v[k] = VBool(FALSE)
    /\ Cardinality(DOMAIN cp_out.v) = 1

\* the comma join, built from the right
RECURSIVE CommaJoined(_)
CommaJoined(l) ==
    IF l = <<>> THEN ""
    ELSE IF Len(l) = 1 THEN PyStr(l[1])
    ELSE CommaJoined(SubSeq(l, 1, Len(l) - 1)) \o "," \o PyStr(l[Len(l)])

\* C8: normalisation renders a bool as "true"/"false", a list as its
\* stringified elements joined with "," (one element: that element; empty:
\* the empty string) and leaves every other value unchanged; a bool is
\* never treated as an integer.
C8_CleanValues ==
    (Cleaned /\ cp_out.t = "dict") =>
        \A k \in DOMAIN cp_out.v :
            LET i == cp_in.v[k]
                o == cp_out.v[k]
            IN  CASE i.t = "bool" ->
                       o.t = "str" /\ o.v = (IF i.v THEN "true" ELSE "false")
                  [] i.t = "list" ->
                       /\ o.t = "str"
                       /\ o.v = CommaJoined(i.v)
                       /\ i.v = <<>> => o.v = ""
                       /\ i.v = <<VStr("bitcoin")>> => o.v = "bitcoin"
                       /\ i.v = <<VStr("bitcoin"), VInt(10)>>
                             => o.v = "bitcoin,10"
                  [] OTHER -> o.t = i.t /\ o.v = i.v

C8_Witness ==
    /\ pc = "cleaned" /\ cp_out.t = "dict"
    /\ \E k \in DOMAIN cp_out.v :
          cp_in.v[k] = VBool(TRUE) /\ cp_out.v[k] = VStr("true")
    /\ \E k \in DOMAIN cp_out.v :
          /\ cp_in.v[k] = VList(<<VStr("bitcoin"), VInt(10)>>)
          /\ cp_out.v[k] = VStr("bitcoin,10")

\* C9: normalisation is idempotent on its output:
\* clean_params(clean_params(m)) equals clean_params(m) for every input m.
C9_Idempotent ==
    pc = "recleaned" => (cp_out.t = cp_in.t /\ cp_out.v = cp_in.v)

\* C10: clean_params returns None when its input is None and returns a
\* mapping, not None, whenever its input is a mapping, the empty mapping
\* and a mapping of None values included.
C10_NoneIffNone ==
    Cleaned =>
        /\ IsNone(cp_in) => IsNone(cp_out)
        /\ cp_in.t = "dict" => cp_out.t = "dict"

\* an endpoint method has called _get
InCall == pc \in {"requesting", "done"}

\* the endpoint methods of the model that build a params mapping
QueryMethods == {"get_simple_price", "get_simple_token_price",
                 "get_coins_list", "get_coin_by_id"}

\* the parameters of each endpoint method that belong in the path
PathArgs(m) ==
    CASE m \in {"get_simple_token_price", "get_coin_by_id", "get_exchange"}
            -> {"id"}
      [] m = "get_coin_contract" -> {"id", "contract_address"}
      [] m = "get_indexes_by_market_id" -> {"market_id", "id"}
      [] m = "get_companies" -> {"coin_id"}
      [] OTHER -> {}

\* C11: the raw mapping an endpoint method hands to _get carries every
\* query argument with the caller's value, unmodified, so an argument left
\* absent contributes no key to the request; get_simple_price(ids=
\* ["bitcoin","ethereum"], vs_currencies=["usd"]) sends exactly
\* {ids: "bitcoin,ethereum", vs_currencies: "usd"} and get_coins_list()
\* sends no include_platform key.
C11_RawParamsUnmodified ==
    (InCall /\ method \in QueryMethods) =>
        /\ params.t = "dict"
        /\ DOMAIN params.v = DOMAIN args \ PathArgs(method)
        /\ \A k \in DOMAIN params.v :
              /\ params.v[k].t = args[k].t
              /\ params.v[k].v = args[k].v
        /\ \A k \in DOMAIN args \ PathArgs(method) :
              IsNone(args[k]) =>
                  \/ IsNone(requests[1].params)
                  \/ k \notin DOMAIN requests[1].params.v
        /\ (/\ method = "get_simple_price"
            /\ args["ids"].v = <<VStr("bitcoin"), VStr("ethereum")>>
            /\ \A k \in DOMAIN args \ {"ids", "vs_currencies"} :
                  IsNone(args[k]))
              => /\ DOMAIN requests[1].params.v = {"ids", "vs_currencies"}
                 /\ requests[1].params.v["ids"].v = "bitcoin,ethereum"
                 /\ requests[1].params.v["vs_currencies"].v = "usd"

\* the path each endpoint method is documented to request
ExpectedPath(m, a) ==
    CASE m = "get_simple_token_price" -> "simple/token_price/" \o a["id"].v
      [] m = "get_coin_by_id" -> "coins/" \o a["id"].v
      [] m = "get_coin_contract" ->
            "coins/" \o a["id"].v \o "/contract/" \o a["contract_address"].v
      [] m = "get_exchange" -> "exchanges/" \o a["id"].v
      [] m = "get_indexes_by_market_id" ->
            "indexes/" \o a["market_id"].v \o "/" \o a["id"].v
      [] m = "get_companies" -> "companies/public_treasury/" \o a["coin_id"].v

Placeholders == {"simple/token_price/{id}", "coins/{id}",
                 "coins/{id}/contract/{contract_address}", "exchanges/{id}",
                 "indexes/{market_id}/{id}",
                 "companies/public_treasury/{coin_id}"}

\* C12: every endpoint method with a path argument requests a path in
\* which the caller's value stands in place of the placeholder: different
\* arguments give different paths and no requested path holds a literal
\* brace placeholder such as "{id}".
C12_PathSubstituted ==
    (InCall /\ PathArgs(method) # {}) =>
        /\ path = ExpectedPath(method, args)
        /\ path \notin Placeholders

\* C13: clean_params does not mutate the mapping the caller passes in: after
\* the call the caller's object has the same keys and values (None entries
\* still present, bools still bools, lists still lists) and the mapping
\* returned is a distinct object.
C13_CallerMappingUntouched ==
    (Cleaned /\ cp_arg # 0) =>
        /\ cp_in.t = "dict"
        /\ DOMAIN heap[cp_arg] = DOMAIN cp_in.v
        /\ \A k \in DOMAIN cp_in.v :
              /\ heap[cp_arg][k].t = cp_in.v[k].t
              /\ heap[cp_arg][k].v = cp_in.v[k].v
        /\ cp_ret # cp_arg
        /\ cp_ret # 0 =>
              /\ cp_out.t = "dict"
              /\ DOMAIN heap[cp_ret] = DOMAIN cp_out.v
              /\ \A k \in DOMAIN cp_out.v :
                    /\ heap[cp_ret][k].t = cp_out.v[k].t
                    /\ heap[cp_ret][k].v = cp_out.v[k].v

C13_Witness ==
    /\ pc = "cleaned" /\ cp_arg = 1 /\ cp_ret = 2
    /\ \E k \in DOMAIN heap[1] : IsNone(heap[1][k])
    /\ \E k \in DOMAIN heap[1] :
          /\ heap[1][k] = VBool(TRUE)
          /\ heap[2][k] = VStr("true")

\* _get has exited because requests.get itself raised
TransportFailed == pc = "done" /\ response = NoResponse

\* C14: fatal faults are never converted, whatever fail_silently is: when
\* the transport fails, or a 200 response carries a body that does not
\* parse as JSON, the fault reaches the caller unchanged; the call neither
\* returns None nor raises CoinGeckoAPIError and emits no log event.
C14_FatalFaultsPropagate ==
    /\ TransportFailed =>
          /\ Len(events) = 1
          /\ Exit.ev = "raise" /\ Exit.arg.cls = "ConnectionError"
    /\ (Responded /\ response.status_code = 200 /\ ~response.json.ok) =>
          /\ Len(events) = 1
          /\ Exit.ev = "raise" /\ Exit.arg.cls = "JSONDecodeError"
          /\ Count("warning") = 0 /\ Count("info") = 0

C14_Witness ==
    /\ Responded /\ self.fail_silently
    /\ response.status_code = 200
    /\ response.content = "Not Found Message Content"
    /\ Exit.ev = "raise" /\ Exit.arg.cls = "JSONDecodeError"

\* C15: no call of _get or of an endpoint method changes the client's
\* configuration, whatever its outcome; so in any sequence of calls the
\* outcome of a call is determined by its own path, params and response
\* and the configuration given at construction, not by earlier calls.
C15_ConfigUnchanged ==
    [][/\ self' = self
       /\ (pc = "requesting" /\ pc' = "done" /\ response' # NoResponse) =>
             events' = _get_response(self, path, response')]_vars

C15_Witness ==
    /\ earlier /\ Responded /\ method = "get_exchange"
    /\ self.fail_silently /\ ~IsNone(self.key)
    /\ response.status_code = 404 /\ ReturnsNone(Exit)

\* C16: str(e) of a CoinGeckoAPIError is total: for every non-200 response
\* it yields "<status code> <detail>" and never raises, whatever the body:
\* a JSON object with or without an `error` field, JSON that is not an
\* object, or bytes that are not JSON.
C16_RenderingTotal ==
    (pc = "done" /\ rendered # NotRendered) => rendered.ok

====
